---- MODULE Spec2Model ----
(***************************************************************************)
(* Resource property Get, identifier case conversion and the global        *)
(* restriction evaluator of googlecloudsdk/core/resource/                  *)
(* resource_property.py.                                                   *)
(*                                                                         *)
(* A Python value x is a pair <<type, payload>>: x[1] is its type and x[2]  *)
(* its payload:                                                            *)
(*   "none"    0                  the None object                          *)
(*   "int"     an integer                                                  *)
(*   "str"     a sequence of one-character strings                         *)
(*   "list"    a sequence of values                                        *)
(*   "dict"    a sequence of [k |-> str value, v |-> value], keys unique,  *)
(*             in iteration order                                          *)
(*   "set"     a set of integers                                           *)
(*   "obj"     a sequence of [k, v] attribute entries (the __dict__)       *)
(*   "method"  an attribute name: a builtin bound method got by getattr    *)
(* A path element (index) is a value too: str = name, int = index,         *)
(* None = slice.                                                           *)
(***************************************************************************)
EXTENDS Integers, Sequences, FiniteSets, TLC

VARIABLES
  \* Get(resource, key, default)
  resource_in,  \* the resource argument as passed
  resource,     \* the local `resource`, reassigned while descending
  key,          \* the path
  default,
  i,            \* number of path elements consumed (the loop index)
  meta,         \* pending metadata key name
  pc,           \* "loop", "done" (returned), "raised"
  branch,       \* the branch of the loop body the last iteration took
  result,       \* the returned value, or the exception raised
  missed,       \* history: some iteration so far did not find its key
  \* case conversion: name -> camel -> snake -> camel2
  name, camel, snake, camel2, cpc,
  \* EvaluateGlobalRestriction on two resources with the same pattern
  res_a, res_b, pattern, out_a, out_b, epc,
  \* EvaluateGlobalRestriction on a resource graph that may have cycles
  heap,      \* the dict objects: object id -> entries; a value is a leaf or a reference
  gpattern,  \* the pattern
  stack,     \* the active calls, outermost first: <<object id, entry being visited>>
  gpc,       \* "run", "done" (returned), "raised"
  gout,      \* the result returned
  \* Watch.Run(args)
  w_max_wait,     \* args.max_wait in seconds, 0 when not given
  w_newer_than,   \* args.newer_than: None or a time
  w_reply,        \* what each watch request ends in: a response or an error
  w_num_retries,  \* the client's num_retries
  w_timeout,      \* the client's timeout
  w_request,      \* the newerThan field of the request sent
  w_sent,         \* number of watch requests sent
  w_error,        \* the exception the request raised, None when none
  wpc,            \* "start", "request", "response", "failed", "returned", "raised"
  w_outcome,      \* the value returned or the exception Run ends with
  \* LogTailer
  cursor,      \* self.cursor: position in the file being read
  out,         \* what has been printed to self.out, in order
  t_polls,     \* number of Poll calls so far
  t_range,     \* first byte of the Range header of the last request
  t_received,  \* history: number of bytes of the bodies of 200 and 206 responses so far
  t_is_last,   \* is_last of the last Poll call
  t_status,    \* res.status of the last response
  t_body,      \* body of the last response
  t_raised,    \* the last Poll call raised HttpError
  \* CloudBuildClient.Stream
  build,       \* the local `build`: <<status, logsBucket>> as last read
  calls,       \* history: the GetBuild and Poll calls made, in order
  spc,         \* "start", "loop", "get", "returned", "raised"
  returned     \* the build returned

getVars == <<resource_in, resource, key, default, i, meta, pc, branch, result, missed>>
caseVars == <<name, camel, snake, camel2, cpc>>
evalVars == <<res_a, res_b, pattern, out_a, out_b, epc>>
graphVars == <<heap, gpattern, stack, gpc, gout>>
watchVars == <<w_max_wait, w_newer_than, w_reply, w_num_retries, w_timeout, w_request,
               w_sent, w_error, wpc, w_outcome>>
tailerVars == <<cursor, out, t_polls, t_range, t_received, t_is_last, t_status, t_body,
                t_raised>>
streamVars == <<build, calls, spc, returned>>
logVars == <<tailerVars, streamVars>>
vars == <<getVars, caseVars, evalVars, graphVars, watchVars, logVars>>

----------------------------------------------------------------------------
\* Values

None == <<"none", 0>>
IntV(n) == <<"int", n>>
StrV(s) == <<"str", s>>
ListV(s) == <<"list", s>>
DictV(s) == <<"dict", s>>
SetV(s) == <<"set", s>>
ObjV(s) == <<"obj", s>>
MethodV(s) == <<"method", s>>
Entry(k, v) == [k |-> StrV(k), v |-> v]

\* Python truth value of a value.
Truthy(x) ==
  CASE x[1] = "none" -> FALSE
    [] x[1] = "int" -> x[2] # 0
    [] x[1] \in {"str", "list", "dict"} -> Len(x[2]) > 0
    [] x[1] = "set" -> x[2] # {}
    [] OTHER -> TRUE

----------------------------------------------------------------------------
\* Characters and strings

LowerSeq == <<"a", "b", "c", "d", "e", "f", "g", "h", "i", "j", "k", "l", "m",
              "n", "o", "p", "q", "r", "s", "t", "u", "v", "w", "x", "y", "z">>
UpperSeq == <<"A", "B", "C", "D", "E", "F", "G", "H", "I", "J", "K", "L", "M",
              "N", "O", "P", "Q", "R", "S", "T", "U", "V", "W", "X", "Y", "Z">>
DigitSeq == <<"0", "1", "2", "3", "4", "5", "6", "7", "8", "9">>

Range(s) == {s[j] : j \in DOMAIN s}
Lowers == Range(LowerSeq)
Uppers == Range(UpperSeq)
Digits == Range(DigitSeq)

IsLower(c) == c \in Lowers
IsUpper(c) == c \in Uppers
IsDigit(c) == c \in Digits

ToUpperChar(c) ==
  IF IsLower(c) THEN UpperSeq[CHOOSE j \in DOMAIN LowerSeq : LowerSeq[j] = c] ELSE c
ToLowerChar(c) ==
  IF IsUpper(c) THEN LowerSeq[CHOOSE j \in DOMAIN UpperSeq : UpperSeq[j] = c] ELSE c

\* str.lower() and str.upper()
Lower(s) == [j \in DOMAIN s |-> ToLowerChar(s[j])]
Upper(s) == [j \in DOMAIN s |-> ToUpperChar(s[j])]

Max(S) == CHOOSE x \in S : \A y \in S : y <= x

\* str.title(): the first cased character of every run of letters is
\* uppercased, the other cased characters of the run are lowercased.
RECURSIVE TitleFrom(_, _, _)
TitleFrom(s, p, prevCased) ==
  IF p > Len(s) THEN <<>>
  ELSE IF IsLower(s[p])
    THEN <<IF prevCased THEN s[p] ELSE ToUpperChar(s[p])>> \o TitleFrom(s, p + 1, TRUE)
  ELSE IF IsUpper(s[p])
    THEN <<IF prevCased THEN ToLowerChar(s[p]) ELSE s[p]>> \o TitleFrom(s, p + 1, TRUE)
  ELSE <<s[p]>> \o TitleFrom(s, p + 1, FALSE)

\* Mutant of Title: the segment is left as it is.
TitleOmitted(s) == s

Title(s) == TitleFrom(s, 1, FALSE)

\* str.split(sep) for a one-character separator: the sequence of segments.
RECURSIVE SplitFrom(_, _, _, _)
SplitFrom(s, sep, p, cur) ==
  IF p > Len(s) THEN <<cur>>
  ELSE IF s[p] = sep THEN <<cur>> \o SplitFrom(s, sep, p + 1, <<>>)
  ELSE SplitFrom(s, sep, p + 1, Append(cur, s[p]))

Split(s, sep) == SplitFrom(s, sep, 1, <<>>)

RECURSIVE Join(_)
Join(parts) == IF parts = <<>> THEN <<>> ELSE Head(parts) \o Join(Tail(parts))

----------------------------------------------------------------------------
\* Identifier case conversion

\* ConvertToCamelCase: part[0] + ''.join(x.title() for x in part[1:])
ConvertToCamelCase(s) ==
  LET part == Split(s, "_")
  IN part[1] \o Join([j \in 1..(Len(part) - 1) |-> Title(part[j + 1])])

\* Number of consecutive uppercase characters of s from position p.
UpperRun(s, p) ==
  Max({n \in 0..(Len(s) - p + 1) : \A j \in p..(p + n - 1) : IsUpper(s[j])})

\* (?=[A-Z][a-z]|$) at position q
SnakeLookahead(s, q) ==
  \/ q + 1 <= Len(s) /\ IsUpper(s[q]) /\ IsLower(s[q + 1])
  \/ q = Len(s) + 1

\* Mutant of SnakeMatchLen: the second alternative of _SNAKE_RE is lost.
SnakeMatchLenFirstAlternative(s, p) ==
  IF p > 1 /\ (IsLower(s[p - 1]) \/ IsDigit(s[p - 1]))
  THEN LET ok == {n \in 1..UpperRun(s, p) : SnakeLookahead(s, p + n)}
       IN IF ok = {} THEN 0 ELSE Max(ok)
  ELSE 0

\* Length of the match of _SNAKE_RE at position p of s, 0 when there is none:
\*   (?<=[a-z0-9])[A-Z]+(?=[A-Z][a-z]|$)   greedy, backtracking
\*   (?!^)[A-Z](?=[a-z])
SnakeMatchLen(s, p) ==
  LET alt1 == IF p > 1 /\ (IsLower(s[p - 1]) \/ IsDigit(s[p - 1]))
              THEN LET ok == {n \in 1..UpperRun(s, p) : SnakeLookahead(s, p + n)}
                   IN IF ok = {} THEN 0 ELSE Max(ok)
              ELSE 0
      alt2 == IF p > 1 /\ IsUpper(s[p]) /\ p + 1 <= Len(s) /\ IsLower(s[p + 1])
              THEN 1 ELSE 0
  IN IF alt1 > 0 THEN alt1 ELSE alt2

\* _SNAKE_RE.sub(r'_\1', s): every match, left to right, gets a '_' before it.
RECURSIVE SnakeSub(_, _)
SnakeSub(s, p) ==
  IF p > Len(s) THEN <<>>
  ELSE LET n == SnakeMatchLen(s, p)
       IN IF n > 0
          THEN <<"_">> \o SubSeq(s, p, p + n - 1) \o SnakeSub(s, p + n)
          ELSE <<s[p]>> \o SnakeSub(s, p + 1)

ConvertToSnakeCase(s) == Lower(SnakeSub(s, 1))

ConvertToAngrySnakeCase(s) == Upper(SnakeSub(s, 1))

\* Names the code and the resources use
s_items == <<"i", "t", "e", "m", "s">>
s_key == <<"k", "e", "y">>
s_value == <<"v", "a", "l", "u", "e">>
s_metadata == <<"m", "e", "t", "a", "d", "a", "t", "a">>
s_email == <<"e", "m", "a", "i", "l">>
s_count == <<"c", "o", "u", "n", "t">>
s_real == <<"r", "e", "a", "l">>
s_imag == <<"i", "m", "a", "g">>
s_numerator == <<"n", "u", "m", "e", "r", "a", "t", "o", "r">>
s_denominator == <<"d", "e", "n", "o", "m", "i", "n", "a", "t", "o", "r">>
s_conjugate == <<"c", "o", "n", "j", "u", "g", "a", "t", "e">>
s_bit_length == <<"b", "i", "t", "_", "l", "e", "n", "g", "t", "h">>
s_null == <<"n", "u", "l", "l">>
s_keys == <<"k", "e", "y", "s">>
s_has_key == <<"h", "a", "s", "_", "k", "e", "y">>
s_hasKey == <<"h", "a", "s", "K", "e", "y">>

----------------------------------------------------------------------------
\* Containers

\* `k in d` for a dict d
DictHas(d, k) == \E j \in DOMAIN d[2] : d[2][j].k = k

\* d.get(k): the value under k, None when k is not a key
DictGet(d, k) ==
  IF DictHas(d, k) THEN d[2][CHOOSE j \in DOMAIN d[2] : d[2][j].k = k].v ELSE None

Min(S) == CHOOSE x \in S : \A y \in S : x <= y

\* sorted(resource) for a set of integers
RECURSIVE SortedSeq(_)
SortedSeq(S) ==
  IF S = {} THEN <<>> ELSE <<IntV(Min(S))>> \o SortedSeq(S \ {Min(S)})

\* Public attributes of the builtin dict, list, str and int objects.
DictAttrs ==
  {<<"c", "l", "e", "a", "r">>,
   <<"c", "o", "p", "y">>,
   <<"f", "r", "o", "m", "k", "e", "y", "s">>,
   <<"g", "e", "t">>,
   s_has_key,
   s_items,
   <<"i", "t", "e", "r", "i", "t", "e", "m", "s">>,
   <<"i", "t", "e", "r", "k", "e", "y", "s">>,
   <<"i", "t", "e", "r", "v", "a", "l", "u", "e", "s">>,
   s_keys,
   <<"p", "o", "p">>,
   <<"p", "o", "p", "i", "t", "e", "m">>,
   <<"s", "e", "t", "d", "e", "f", "a", "u", "l", "t">>,
   <<"u", "p", "d", "a", "t", "e">>,
   <<"v", "a", "l", "u", "e", "s">>,
   <<"v", "i", "e", "w", "i", "t", "e", "m", "s">>,
   <<"v", "i", "e", "w", "k", "e", "y", "s">>,
   <<"v", "i", "e", "w", "v", "a", "l", "u", "e", "s">>}
ListAttrs ==
  {<<"a", "p", "p", "e", "n", "d">>,
   <<"c", "o", "u", "n", "t">>,
   <<"e", "x", "t", "e", "n", "d">>,
   <<"i", "n", "d", "e", "x">>,
   <<"i", "n", "s", "e", "r", "t">>,
   <<"p", "o", "p">>,
   <<"r", "e", "m", "o", "v", "e">>,
   <<"r", "e", "v", "e", "r", "s", "e">>,
   <<"s", "o", "r", "t">>}
StrAttrs ==
  {<<"c", "a", "p", "i", "t", "a", "l", "i", "z", "e">>,
   <<"c", "e", "n", "t", "e", "r">>,
   <<"c", "o", "u", "n", "t">>,
   <<"d", "e", "c", "o", "d", "e">>,
   <<"e", "n", "c", "o", "d", "e">>,
   <<"e", "n", "d", "s", "w", "i", "t", "h">>,
   <<"e", "x", "p", "a", "n", "d", "t", "a", "b", "s">>,
   <<"f", "i", "n", "d">>,
   <<"f", "o", "r", "m", "a", "t">>,
   <<"i", "n", "d", "e", "x">>,
   <<"i", "s", "a", "l", "n", "u", "m">>,
   <<"i", "s", "a", "l", "p", "h", "a">>,
   <<"i", "s", "d", "i", "g", "i", "t">>,
   <<"i", "s", "l", "o", "w", "e", "r">>,
   <<"i", "s", "s", "p", "a", "c", "e">>,
   <<"i", "s", "t", "i", "t", "l", "e">>,
   <<"i", "s", "u", "p", "p", "e", "r">>,
   <<"j", "o", "i", "n">>,
   <<"l", "j", "u", "s", "t">>,
   <<"l", "o", "w", "e", "r">>,
   <<"l", "s", "t", "r", "i", "p">>,
   <<"p", "a", "r", "t", "i", "t", "i", "o", "n">>,
   <<"r", "e", "p", "l", "a", "c", "e">>,
   <<"r", "f", "i", "n", "d">>,
   <<"r", "i", "n", "d", "e", "x">>,
   <<"r", "j", "u", "s", "t">>,
   <<"r", "p", "a", "r", "t", "i", "t", "i", "o", "n">>,
   <<"r", "s", "p", "l", "i", "t">>,
   <<"r", "s", "t", "r", "i", "p">>,
   <<"s", "p", "l", "i", "t">>,
   <<"s", "p", "l", "i", "t", "l", "i", "n", "e", "s">>,
   <<"s", "t", "a", "r", "t", "s", "w", "i", "t", "h">>,
   <<"s", "t", "r", "i", "p">>,
   <<"s", "w", "a", "p", "c", "a", "s", "e">>,
   <<"t", "i", "t", "l", "e">>,
   <<"t", "r", "a", "n", "s", "l", "a", "t", "e">>,
   <<"u", "p", "p", "e", "r">>,
   <<"z", "f", "i", "l", "l">>}
IntAttrs ==
  {s_real, s_imag, s_numerator, s_denominator, s_conjugate, s_bit_length}

\* hasattr(r, x) for a name x (a str value); names of the form __x__ are
\* not modelled.
HasAttr(r, x) ==
  /\ x[1] = "str"
  /\ CASE r[1] = "obj" -> DictHas(r, x)
       [] r[1] = "dict" -> x[2] \in DictAttrs
       [] r[1] = "list" -> x[2] \in ListAttrs
       [] r[1] = "str" -> x[2] \in StrAttrs
       [] r[1] = "int" -> x[2] \in IntAttrs
       [] OTHER -> FALSE

\* getattr(r, x, d) where hasattr(r, x): a field of an object, a data
\* attribute of an int, or a bound method of a builtin.
GetAttr(r, x, d) ==
  CASE r[1] = "obj" -> DictGet(r, x)
    [] r[1] = "int" /\ x[2] \in {s_real, s_numerator} -> r
    [] r[1] = "int" /\ x[2] = s_imag -> IntV(0)
    [] r[1] = "int" /\ x[2] = s_denominator -> IntV(1)
    [] OTHER -> MethodV(x[2])

----------------------------------------------------------------------------
\* json.loads for compact JSON: integers, strings without escapes, null,
\* arrays and objects. A parse result is [ok, val, next]; ok = FALSE stands
\* for the ValueError json.loads raises.

JsonFail == [ok |-> FALSE, val |-> None, next |-> 0]
JsonOk(v, q) == [ok |-> TRUE, val |-> v, next |-> q]

DigitVal(c) == (CHOOSE j \in DOMAIN DigitSeq : DigitSeq[j] = c) - 1

DigitRun(s, p) ==
  Max({n \in 0..(Len(s) - p + 1) : \A j \in p..(p + n - 1) : IsDigit(s[j])})

RECURSIVE DigitsVal(_, _, _)
DigitsVal(s, p, q) ==
  IF q < p THEN 0 ELSE 10 * DigitsVal(s, p, q - 1) + DigitVal(s[q])

JsonNumber(s, p) ==
  LET neg == s[p] = "-"
      from == IF neg THEN p + 1 ELSE p
      n == DigitRun(s, from)
  IN IF n = 0 \/ (n > 1 /\ s[from] = "0") THEN JsonFail
     ELSE JsonOk(IntV((IF neg THEN -1 ELSE 1) * DigitsVal(s, from, from + n - 1)),
                 from + n)

JsonString(s, p) ==
  LET closing == {q \in (p + 1)..Len(s) : s[q] = "\""}
  IN IF p > Len(s) \/ s[p] # "\"" \/ closing = {} THEN JsonFail
     ELSE JsonOk(StrV(SubSeq(s, p + 1, Min(closing) - 1)), Min(closing) + 1)

RECURSIVE JsonValue(_, _)
RECURSIVE JsonArray(_, _, _)
RECURSIVE JsonObject(_, _, _)

JsonValue(s, p) ==
  IF p > Len(s) THEN JsonFail
  ELSE CASE s[p] = "\"" -> JsonString(s, p)
         [] IsDigit(s[p]) \/ s[p] = "-" -> JsonNumber(s, p)
         [] s[p] = "[" ->
              IF p + 1 <= Len(s) /\ s[p + 1] = "]" THEN JsonOk(ListV(<<>>), p + 2)
              ELSE JsonArray(s, p + 1, <<>>)
         [] s[p] = "{" ->
              IF p + 1 <= Len(s) /\ s[p + 1] = "}" THEN JsonOk(DictV(<<>>), p + 2)
              ELSE JsonObject(s, p + 1, <<>>)
         [] OTHER ->
              IF p + 3 <= Len(s) /\ SubSeq(s, p, p + 3) = s_null THEN JsonOk(None, p + 4) ELSE JsonFail

\* The elements of an array from position p on; acc holds those parsed.
JsonArray(s, p, acc) ==
  LET e == JsonValue(s, p)
  IN IF ~e.ok \/ e.next > Len(s) THEN JsonFail
     ELSE IF s[e.next] = "," THEN JsonArray(s, e.next + 1, Append(acc, e.val))
     ELSE IF s[e.next] = "]" THEN JsonOk(ListV(Append(acc, e.val)), e.next + 1)
     ELSE JsonFail

\* The members of an object from position p on; a repeated name keeps its
\* last value.
JsonObject(s, p, acc) ==
  LET k == JsonString(s, p)
      e == JsonValue(s, k.next + 1)
      kept == SelectSeq(acc, LAMBDA m : m.k # k.val)
  IN IF ~k.ok \/ k.next > Len(s) \/ s[k.next] # ":" THEN JsonFail
     ELSE IF ~e.ok \/ e.next > Len(s) THEN JsonFail
     ELSE IF s[e.next] = ","
       THEN JsonObject(s, e.next + 1, Append(kept, [k |-> k.val, v |-> e.val]))
     ELSE IF s[e.next] = "}"
       THEN JsonOk(DictV(Append(kept, [k |-> k.val, v |-> e.val])), e.next + 1)
     ELSE JsonFail

\* json.loads(value): [ok, val]; a value that is no string is a TypeError.
JsonLoads(value) ==
  IF value[1] # "str" THEN JsonFail
  ELSE LET r == JsonValue(value[2], 1)
       IN IF r.ok /\ r.next = Len(value[2]) + 1 THEN r ELSE JsonFail

----------------------------------------------------------------------------
\* Metadata dicts

\* _GetMetaDict(items, key, value): the first dict of items with
\* item.get(key) == value. The scan ends with None at the first item that has
\* no get() (AttributeError); anything but a list has no such items (iterating
\* a dict or a str yields strings, the rest raises TypeError).
_GetMetaDict(items, k, v) ==
  IF items[1] # "list" THEN None
  ELSE LET stop == {j \in DOMAIN items[2] :
                      items[2][j][1] # "dict" \/ DictGet(items[2][j], k) = v}
       IN IF stop = {} THEN None
          ELSE IF items[2][Min(stop)][1] # "dict" THEN None
          ELSE items[2][Min(stop)]

\* Mutant of _GetMetaDataValue: the 'key' field is read, not 'value'.
_GetMetaDataValueOfKey(items, nm, deserialize) ==
  LET item == _GetMetaDict(items, StrV(s_key), nm)
  IN IF item = None THEN None ELSE DictGet(item, StrV(s_key))

\* Mutant of _GetMetaDataValue: the value is never deserialized.
_GetMetaDataValueRaw(items, nm, deserialize) ==
  LET item == _GetMetaDict(items, StrV(s_key), nm)
  IN IF item = None THEN None ELSE DictGet(item, StrV(s_value))

\* _GetMetaDataValue(items, name, deserialize)
_GetMetaDataValue(items, nm, deserialize) ==
  LET item == _GetMetaDict(items, StrV(s_key), nm)
      value == DictGet(item, StrV(s_value))
  IN IF item = None THEN None
     ELSE IF deserialize /\ JsonLoads(value).ok THEN JsonLoads(value).val
     ELSE value

----------------------------------------------------------------------------
\* Matching engine

\* The spellings GetMatchingIndex and GetMatchingIndexValue apply func to.
Spellings(index) ==
  IF index[1] = "str"
  THEN {index, StrV(ConvertToCamelCase(index[2])), StrV(ConvertToSnakeCase(index[2]))}
  ELSE {index}

\* GetMatchingIndex(index, func): func is the predicate, as a function over
\* Spellings(index).
GetMatchingIndex(index, func) ==
  IF func[index] THEN index
  ELSE IF index[1] # "str" THEN None
  ELSE IF func[StrV(ConvertToCamelCase(index[2]))]
    THEN StrV(ConvertToCamelCase(index[2]))
  ELSE IF func[StrV(ConvertToSnakeCase(index[2]))]
    THEN StrV(ConvertToSnakeCase(index[2]))
  ELSE None

\* GetMatchingIndexValue(index, func): func gives the value of a spelling.
GetMatchingIndexValue(index, func) ==
  IF Truthy(func[index]) THEN func[index]
  ELSE IF index[1] # "str" THEN None
  ELSE IF Truthy(func[StrV(ConvertToCamelCase(index[2]))])
    THEN func[StrV(ConvertToCamelCase(index[2]))]
  ELSE IF Truthy(func[StrV(ConvertToSnakeCase(index[2]))])
    THEN func[StrV(ConvertToSnakeCase(index[2]))]
  ELSE None

----------------------------------------------------------------------------
\* Get(resource, key, default)

\* The outcome of one iteration of the loop, or of a whole call.
\*   kind: "continue", "return" or "raise"; branch: the branch taken;
\*   resource, meta: the locals after it; value: the value returned.
Continue(br, r, m) ==
  [kind |-> "continue", branch |-> br, resource |-> r, meta |-> m, value |-> None]
Return(br, r, m, v) ==
  [kind |-> "return", branch |-> br, resource |-> r, meta |-> m, value |-> v]
Raise(br, r, m, e) ==
  [kind |-> "raise", branch |-> br, resource |-> r, meta |-> m, value |-> StrV(e)]

\* if isinstance(resource, set): resource = sorted(resource)
SortIfSet(r) == IF r[1] = "set" THEN ListV(SortedSeq(r[2])) ELSE r

\* hasattr(resource, 'iteritems')
HasIterItems(r) == r[1] = "dict"

\* hasattr(resource, '__iter__') or isinstance(resource, basestring)
HasIterOrIsString(r) == r[1] \in {"list", "str"}

\* len(resource) and resource[index] of a list or a str
SeqLen(r) == Len(r[2])
SeqAt(r, n) ==
  LET p == IF n < 0 THEN Len(r[2]) + n + 1 ELSE n + 1
  IN IF r[1] = "str" THEN StrV(<<r[2][p]>>) ELSE r[2][p]

\* Mutant of InRange: negative indices are not accepted.
InRangeNonNegative(n, len) == 0 <= n /\ n < len

\* index in xrange(-len(resource), len(resource))
InRange(n, len) == -len <= n /\ n < len

\* Mutant of AbsentValue: None is returned, not default.
AbsentValueNone(d) == None

\* The value returned while resource is None.
AbsentValue(d) == d

\* Mutant of LastDictSlice: falsy values are kept.
LastDictSliceUnfiltered(r, index, m, d) ==
  LET values == [j \in DOMAIN r[2] |-> DictGet(r[2][j], index)]
  IN Return("list_field_slice", r, m, IF values = <<>> THEN d ELSE ListV(values))

\* filter(None, [d.get(index) for d in resource]) or default, of the last
\* iteration; an element without get() raises AttributeError.
LastDictSlice(r, index, m, d) ==
  LET values == [j \in DOMAIN r[2] |-> DictGet(r[2][j], index)]
      found == SelectSeq(values, Truthy)
  IN IF \E j \in DOMAIN r[2] : r[2][j][1] # "dict"
     THEN Raise("list_field_slice", r, m, <<"A", "t", "t", "r", "i", "b", "u", "t", "e",
                                          "E", "r", "r", "o", "r">>)
     ELSE Return("list_field_slice", r, m, IF found = <<>> THEN d ELSE ListV(found))

RECURSIVE Get(_, _, _)
RECURSIVE GetLoop(_, _, _, _, _)
RECURSIVE GetIter(_, _, _, _, _)

\* The list of the results each of a slice, or the first exception raised.
SliceResult(br, r, m, each) ==
  IF \E j \in DOMAIN each : each[j].kind = "raise"
  THEN [each[Min({j \in DOMAIN each : each[j].kind = "raise"})]
          EXCEPT !.branch = br, !.resource = r, !.meta = m]
  ELSE Return(br, r, m, ListV([j \in DOMAIN each |-> each[j].value]))

\* [Get(resource, [k] + key[i + 1:], default) for k in members]
SliceFanOut(br, r, members, rest, m, d) ==
  SliceResult(br, r, m, [j \in DOMAIN members |-> Get(r, <<members[j]>> \o rest, d)])

\* The dict-like branch of the loop body.
GetDictLike(r, path, n, m, d) ==
  LET index == path[n + 1]
      more == n + 1 < Len(path)
      nm == GetMatchingIndex(index, [x \in Spellings(index) |-> DictHas(r, x)])
      items == DictGet(r, StrV(s_items))
  IN IF index = None
     THEN IF more
          THEN SliceFanOut("dict_slice", r, [j \in DOMAIN r[2] |-> r[2][j].k],
                           SubSeq(path, n + 2, Len(path)), m, d)
          ELSE Return("dict_trailing_slice", r, m, r)
     ELSE IF Truthy(nm) THEN Continue("dict_key", DictGet(r, nm), m)
     ELSE IF DictHas(r, StrV(s_items))
       THEN Continue("dict_items",
              GetMatchingIndexValue(index,
                [x \in Spellings(index) |-> _GetMetaDataValue(items, x, more)]), m)
     ELSE Return("dict_default", r, m, d)

\* The list-like branch of the loop body.
GetListLike(r, path, n, m, d) ==
  LET index == path[n + 1]
      more == n + 1 < Len(path)
  IN IF index = None
     THEN IF more
          THEN SliceFanOut("list_slice", r, [j \in 1..SeqLen(r) |-> IntV(j - 1)],
                           SubSeq(path, n + 2, Len(path)), m, d)
          ELSE Return("list_trailing_slice", r, m, r)
     ELSE IF index[1] # "int"
       THEN IF index[1] = "str" /\ r[1] = "list" /\ SeqLen(r) # 0 /\ r[2][1][1] = "dict"
            THEN IF more THEN Continue("list_meta", r, index)
                 ELSE LastDictSlice(r, index, m, d)
            ELSE Return("list_mismatch", r, m, d)
     ELSE IF InRange(index[2], SeqLen(r))
       THEN Continue("list_index", SeqAt(r, index[2]), m)
     ELSE Return("mismatch", r, m, d)

\* One iteration of the loop: element n (from 0) of path, with the locals
\* resource = r0 and meta = m.
GetIter(r0, path, n, m, d) ==
  LET r == SortIfSet(r0)
      index == path[n + 1]
      nm == GetMatchingIndex(index, [x \in Spellings(index) |-> HasAttr(r, x)])
  IN IF r = None THEN Return("none", r, m, AbsentValue(d))
     ELSE IF Truthy(m) THEN Continue("meta", _GetMetaDict(r, m, index), None)
     ELSE IF HasIterItems(r) THEN GetDictLike(r, path, n, m, d)
     ELSE IF index[1] = "str" /\ Truthy(nm) THEN Continue("attr", GetAttr(r, nm, d), m)
     ELSE IF HasIterOrIsString(r) THEN GetListLike(r, path, n, m, d)
     ELSE Return("mismatch", r, m, d)

\* The end of the function, after the loop.
GetEnd(r, m) == Return("end", SortIfSet(r), m, SortIfSet(r))

\* After iteration n with outcome it: the next iteration, or the way out.
GetLoopNext(it, path, n, d) ==
  IF it.kind = "continue" THEN GetLoop(it.resource, path, n + 1, it.meta, d) ELSE it

\* The loop from element n on.
GetLoop(r, path, n, m, d) ==
  IF n >= Len(path) THEN GetEnd(r, m)
  ELSE GetLoopNext(GetIter(r, path, n, m, d), path, n, d)

Get(r, path, d) == GetLoop(r, path, 0, None, d)

\* Iteration with resource r (a set already sorted), path element index and
\* pending name m does not find its key: r has no such name in any spelling
\* and no metadata entry for it, the pending lookup matches no entry, the
\* index is out of range, or the key does not fit the shape of r.
KeyNotFound(r, index, m) ==
  /\ r # None
  /\ IF Truthy(m) THEN _GetMetaDict(r, m, index) = None
     ELSE CASE r[1] = "dict" ->
                 /\ index # None
                 /\ \A x \in Spellings(index) : ~DictHas(r, x)
                 /\ \/ ~DictHas(r, StrV(s_items))
                    \/ \A x \in Spellings(index) :
                         _GetMetaDict(DictGet(r, StrV(s_items)), StrV(s_key), x) = None
            [] r[1] = "list" ->
                 \/ index[1] = "int" /\ ~(-Len(r[2]) <= index[2] /\ index[2] < Len(r[2]))
                 \/ /\ index[1] = "str"
                    /\ \A x \in Spellings(index) : ~HasAttr(r, x)
                    /\ (r[2] = <<>> \/ r[2][1][1] # "dict")
            [] OTHER ->
                 \/ index[1] \in {"int", "none"} /\ r[1] # "str"
                 \/ index[1] = "str" /\ \A x \in Spellings(index) : ~HasAttr(r, x)

----------------------------------------------------------------------------
\* EvaluateGlobalRestriction(resource, restriction, pattern)

\* pattern.search(s) for the pattern of a literal text: s contains the text.
Search(pat, s) ==
  \E p \in 1..(Len(s) - Len(pat) + 1) : SubSeq(s, p, p + Len(pat) - 1) = pat

\* str(n) of an integer
RECURSIVE NatToStr(_)
NatToStr(n) ==
  IF n < 10 THEN <<DigitSeq[n + 1]>> ELSE NatToStr(n \div 10) \o <<DigitSeq[(n % 10) + 1]>>

IntToStr(n) == IF n < 0 THEN <<"-">> \o NatToStr(-n) ELSE NatToStr(n)

\* Mutant of StartsWithUnderscore: the end of the name is tested.
EndsWithUnderscore(k) == Len(k[2]) > 0 /\ k[2][Len(k[2])] = "_"

\* key.startswith('_')
StartsWithUnderscore(k) == Len(k[2]) > 0 /\ k[2][1] = "_"

RECURSIVE EvaluateGlobalRestriction(_, _, _)
EvaluateGlobalRestriction(r, restriction, pat) ==
  IF ~Truthy(r) THEN FALSE
  ELSE CASE r[1] = "str" -> Search(pat, r[2])
         [] r[1] = "int" -> Search(pat, IntToStr(r[2]))
         [] r[1] \in {"dict", "obj"} ->
              \E j \in DOMAIN r[2] :
                /\ ~StartsWithUnderscore(r[2][j].k)
                /\ EvaluateGlobalRestriction(r[2][j].v, restriction, pat)
         [] r[1] = "list" ->
              \E j \in DOMAIN r[2] : EvaluateGlobalRestriction(r[2][j], restriction, pat)
         [] r[1] = "set" ->
              \E x \in r[2] : EvaluateGlobalRestriction(IntV(x), restriction, pat)
         [] OTHER -> FALSE

----------------------------------------------------------------------------
\* Bounds and inputs

MaxNameLen == 5
MaxPathLen == 2
MaxListLen == 2

\* The characters identifiers are drawn from.
NameChars == {"a", "b", "B", "1", "_"}

RECURSIVE StringsUpTo(_, _)
StringsUpTo(chars, n) ==
  IF n = 0 THEN {<<>>}
  ELSE LET shorter == StringsUpTo(chars, n - 1)
       IN shorter \cup {Append(s, c) : s \in {t \in shorter : Len(t) = n - 1}, c \in chars}

NameInputs == StringsUpTo(NameChars, MaxNameLen)

\* Field names of the resources: the empty name, a plain name, a snake_case
\* name and its camelCase spelling.
n_empty == <<>>
n_k == <<"k">>
n_snake == <<"a", "_", "b">>
n_camel == <<"a", "B">>

D1(k, v) == DictV(<<Entry(k, v)>>)
D2(k1, v1, k2, v2) == DictV(<<Entry(k1, v1), Entry(k2, v2)>>)

Leaves == {None, IntV(0), IntV(5), StrV(<<>>), StrV(<<"v">>)}

\* [10, 20, ...] of every length up to MaxListLen
IntLists == {ListV([j \in 1..n |-> IntV(10 * j)]) : n \in 0..MaxListLen}

Sets == {SetV({}), SetV({5, 0})}

FlatDicts ==
  {DictV(<<>>)}
  \cup {D1(k, v) : k \in {n_empty, n_k, n_snake, n_camel, s_count}, v \in {IntV(5), None}}
  \cup {D2(n_snake, IntV(5), n_camel, IntV(6)), D2(n_camel, IntV(6), n_snake, IntV(5)),
        D2(n_k, IntV(5), n_empty, IntV(6)), D2(n_empty, IntV(6), n_k, IntV(5))}

Objects == {ObjV(<<Entry(k, IntV(5))>>) : k \in {n_k, n_snake, n_camel}}

\* {'key': name, 'value': value} entries, and one without a value
MetaEntry(nm, v) == D2(s_key, StrV(nm), s_value, v)
MetaEntries ==
  {MetaEntry(nm, v) : nm \in {s_email, n_camel},
                      v \in {StrV(<<"v">>), IntV(0), StrV(<<"{", "\"", "k", "\"", ":", "5", "}">>)}}
  \cup {D1(s_key, StrV(s_email))}

MetaLists ==
  {ListV(<<e>>) : e \in MetaEntries}
  \cup {ListV(<<MetaEntry(n_k, IntV(5)), e>>) : e \in MetaEntries}
  \cup {ListV(<<IntV(5), MetaEntry(s_email, StrV(<<"v">>))>>),
        ListV(<<MetaEntry(s_email, IntV(0)), MetaEntry(s_email, StrV(<<"v">>))>>)}

\* {'items': metadata list}, also with a field beside it or with items that
\* are no metadata
ItemsDicts ==
  {D1(s_items, ml) : ml \in MetaLists \cup {ListV(<<>>), IntV(5)}}
  \cup {D2(s_email, IntV(6), s_items, ListV(<<MetaEntry(s_email, StrV(<<"v">>))>>))}

\* Lists of dicts, one of them with an element that is no dict
DictLists ==
  {ListV(<<D1(n_k, IntV(5))>>),
   ListV(<<D1(n_k, IntV(5)), D1(n_k, IntV(0)), D1(n_k, IntV(6))>>),
   ListV(<<D1(n_k, IntV(0)), DictV(<<>>)>>),
   ListV(<<D1(n_k, StrV(<<"v">>)), DictV(<<>>), D1(n_k, None)>>),
   ListV(<<D1(n_k, IntV(5)), IntV(5)>>),
   ListV(<<D1(s_count, IntV(5))>>),
   ListV(<<D1(n_camel, IntV(5)), D1(n_snake, IntV(6))>>),
   ListV(<<D1(n_empty, IntV(5)), D1(n_empty, IntV(0))>>),
   ListV(<<D2(n_k, IntV(5), n_camel, IntV(0)), D2(n_k, IntV(0), n_camel, IntV(5))>>)}

\* Containers of containers
Nested ==
  {D2(n_k, D1(n_k, IntV(5)), n_camel, D1(n_k, IntV(0))),
   D2(n_camel, ListV(<<IntV(10)>>), n_k, ListV(<<>>)),
   D2(n_empty, D1(n_k, IntV(5)), n_k, D1(n_k, IntV(5))),
   D1(n_empty, ListV(<<IntV(10)>>)),
   ListV(<<ListV(<<IntV(10), IntV(20)>>), ListV(<<>>)>>),
   ListV(<<D1(n_k, IntV(5)), ListV(<<IntV(10)>>)>>),
   ListV(<<IntV(5), D1(n_k, IntV(5))>>),
   ListV(<<SetV({5, 0}), ObjV(<<Entry(n_k, IntV(5))>>)>>)}

\* A resource with a `metadata` field
WithMetadata ==
  {D1(s_metadata, x) : x \in MetaLists \cup ItemsDicts}
  \cup {ObjV(<<Entry(s_metadata, x)>>) :
          x \in {ListV(<<MetaEntry(s_email, StrV(<<"v">>))>>),
                 D1(s_items, ListV(<<MetaEntry(s_email, StrV(<<"v">>))>>))}}

Resources ==
  Leaves \cup IntLists \cup Sets \cup FlatDicts \cup Objects \cup MetaLists
  \cup ItemsDicts \cup DictLists \cup Nested \cup WithMetadata

PathKeys ==
  {None} \cup {IntV(-1), IntV(0), IntV(MaxListLen)}
  \cup {StrV(x) : x \in {n_empty, n_k, n_snake, n_camel, s_email, s_metadata, s_count}}

RECURSIVE PathsUpTo(_)
PathsUpTo(n) ==
  IF n = 0 THEN {<<>>}
  ELSE LET shorter == PathsUpTo(n - 1)
       IN shorter \cup {Append(p, k) : p \in {q \in shorter : Len(q) = n - 1}, k \in PathKeys}

Paths == PathsUpTo(MaxPathLen)

Defaults == {None, IntV(7)}

\* Inputs of EvaluateGlobalRestriction: '_p' is an internal name.
n_internal == <<"_", "p">>
t_ab == StrV(<<"a", "b">>)
t_c == StrV(<<"c">>)

Patterns == {<<"a", "b">>, <<"5">>, <<"c">>}

\* The values put under an internal name
HiddenValues == {t_ab, t_c, IntV(5), None, ListV(<<t_ab>>), D1(n_k, IntV(5))}

EvalResources ==
  {None, IntV(5), IntV(0), t_ab, t_c,
   D1(n_k, t_ab), D1(n_internal, t_ab),
   D2(n_internal, t_c, n_k, t_ab), D2(n_k, t_c, n_internal, t_ab),
   D1(n_k, D1(n_internal, t_ab)),
   D1(n_k, D2(n_internal, IntV(5), n_k, t_c)),
   D1(n_internal, D1(n_k, t_ab)),
   ListV(<<D1(n_internal, t_ab), t_c>>),
   ListV(<<D2(n_k, IntV(5), n_internal, t_ab), D1(n_internal, t_c)>>),
   ListV(<<IntV(0), ListV(<<D1(n_internal, IntV(5))>>)>>),
   SetV({5, 0}),
   ObjV(<<Entry(n_internal, t_ab)>>),
   ObjV(<<Entry(n_internal, t_ab), Entry(n_k, t_c)>>),
   ObjV(<<Entry(n_k, D1(n_internal, t_ab))>>),
   D1(n_k, ObjV(<<Entry(n_internal, IntV(5)), Entry(n_k, ListV(<<t_ab>>))>>))}

\* The resources that differ from r at most in the values under internal
\* names, at any depth.
RECURSIVE Variants(_)
RECURSIVE EntryVariants(_)
EntryVariants(es) ==
  IF es = <<>> THEN {<<>>}
  ELSE {<<[k |-> Head(es).k, v |-> x]>> \o rest :
          x \in (IF Head(es).k[2] # <<>> /\ Head(Head(es).k[2]) = "_" THEN HiddenValues
                 ELSE Variants(Head(es).v)),
          rest \in EntryVariants(Tail(es))}
RECURSIVE ElementVariants(_)
ElementVariants(xs) ==
  IF xs = <<>> THEN {<<>>}
  ELSE {<<x>> \o rest : x \in Variants(Head(xs)), rest \in ElementVariants(Tail(xs))}
Variants(r) ==
  CASE r[1] \in {"dict", "obj"} -> {<<r[1], es>> : es \in EntryVariants(r[2])}
    [] r[1] = "list" -> {ListV(xs) : xs \in ElementVariants(r[2])}
    [] OTHER -> {r}

----------------------------------------------------------------------------
\* Get as a state machine: one step per iteration of the loop

GetIdle ==
  /\ resource_in = None /\ resource = None /\ key = <<>> /\ default = None
  /\ i = 0 /\ meta = None /\ pc = "idle" /\ branch = "" /\ result = None
  /\ missed = FALSE

CaseIdle ==
  /\ name = <<>> /\ camel = <<>> /\ snake = <<>> /\ camel2 = <<>> /\ cpc = "idle"

EvalIdle ==
  /\ res_a = None /\ res_b = None /\ pattern = <<>>
  /\ out_a = FALSE /\ out_b = FALSE /\ epc = "idle"

GraphIdle ==
  /\ heap = <<>> /\ gpattern = <<>> /\ stack = <<>> /\ gpc = "idle" /\ gout = FALSE

WatchIdle ==
  /\ w_max_wait = 0 /\ w_newer_than = None /\ w_reply = None /\ w_num_retries = 0
  /\ w_timeout = 0 /\ w_request = None /\ w_sent = 0 /\ w_error = None
  /\ wpc = "idle" /\ w_outcome = None

TailerIdle ==
  /\ cursor = 0 /\ out = <<>> /\ t_polls = 0 /\ t_range = 0 /\ t_received = 0
  /\ t_is_last = FALSE /\ t_status = 0 /\ t_body = <<>> /\ t_raised = FALSE

StreamIdle ==
  /\ build = <<"", "">> /\ calls = <<>> /\ spc = "idle" /\ returned = <<"", "">>

LogIdle == TailerIdle /\ StreamIdle

Init ==
  /\ LogIdle
  /\ WatchIdle
  /\ GraphIdle
  /\ resource_in \in Resources
  /\ resource = resource_in
  /\ key \in Paths
  /\ default \in Defaults
  /\ i = 0
  /\ meta = None
  /\ pc = "loop"
  /\ branch = ""
  /\ result = None
  /\ missed = FALSE
  /\ CaseIdle
  /\ EvalIdle

\* One iteration of `for i, index in enumerate(key)`.
Iterate ==
  /\ pc = "loop"
  /\ i < Len(key)
  /\ \E it \in {GetIter(resource, key, i, meta, default)} :
        /\ branch' = it.branch
        /\ resource' = it.resource
        /\ meta' = it.meta
        /\ result' = it.value
        /\ i' = IF it.kind = "continue" THEN i + 1 ELSE i
        /\ pc' = CASE it.kind = "continue" -> "loop"
                   [] it.kind = "return" -> "done"
                   [] OTHER -> "raised"
  /\ missed' = (missed \/ KeyNotFound(SortIfSet(resource), key[i + 1], meta))
  /\ UNCHANGED <<resource_in, key, default, caseVars, evalVars, graphVars, watchVars, logVars>>

\* The loop is over: return resource.
Finish ==
  /\ pc = "loop"
  /\ i = Len(key)
  /\ \E it \in {GetEnd(resource, meta)} :
        /\ resource' = it.resource
        /\ result' = it.value
  /\ pc' = "done"
  /\ UNCHANGED <<resource_in, key, default, i, meta, branch, missed, caseVars, evalVars, graphVars, watchVars, logVars>>

Next == Iterate \/ Finish

Spec == Init /\ [][Next]_vars

----------------------------------------------------------------------------
\* Case conversion round trip: camel -> snake -> camel

InitCase ==
  /\ LogIdle
  /\ WatchIdle
  /\ GraphIdle
  /\ GetIdle
  /\ EvalIdle
  /\ name \in NameInputs
  /\ camel = <<>> /\ snake = <<>> /\ camel2 = <<>>
  /\ cpc = "start"

CaseCamel ==
  /\ cpc = "start"
  /\ camel' = ConvertToCamelCase(name)
  /\ cpc' = "camel"
  /\ UNCHANGED <<name, snake, camel2, getVars, evalVars, graphVars, watchVars, logVars>>

CaseSnake ==
  /\ cpc = "camel"
  /\ snake' = ConvertToSnakeCase(camel)
  /\ cpc' = "snake"
  /\ UNCHANGED <<name, camel, camel2, getVars, evalVars, graphVars, watchVars, logVars>>

CaseCamelAgain ==
  /\ cpc = "snake"
  /\ camel2' = ConvertToCamelCase(snake)
  /\ cpc' = "done"
  /\ UNCHANGED <<name, camel, snake, getVars, evalVars, graphVars, watchVars, logVars>>

NextCase == CaseCamel \/ CaseSnake \/ CaseCamelAgain

SpecCase == InitCase /\ [][NextCase]_vars

----------------------------------------------------------------------------
\* EvaluateGlobalRestriction called on two resources that differ only in
\* the values under keys and attributes that start with '_'

InitEval ==
  /\ LogIdle
  /\ WatchIdle
  /\ GraphIdle
  /\ GetIdle
  /\ CaseIdle
  /\ res_a \in EvalResources
  /\ res_b \in Variants(res_a)
  /\ pattern \in Patterns
  /\ out_a = FALSE /\ out_b = FALSE
  /\ epc = "first"

EvalFirst ==
  /\ epc = "first"
  /\ out_a' = EvaluateGlobalRestriction(res_a, pattern, pattern)
  /\ epc' = "second"
  /\ UNCHANGED <<res_a, res_b, pattern, out_b, getVars, caseVars, graphVars, watchVars, logVars>>

EvalSecond ==
  /\ epc = "second"
  /\ out_b' = EvaluateGlobalRestriction(res_b, pattern, pattern)
  /\ epc' = "done"
  /\ UNCHANGED <<res_a, res_b, pattern, out_a, getVars, caseVars, graphVars, watchVars, logVars>>

NextEval == EvalFirst \/ EvalSecond

SpecEval == InitEval /\ [][NextEval]_vars

----------------------------------------------------------------------------
\* Claims about Get (specification Spec)

\* C1: for every resource and every path, Get ends by returning a value; it
\* never ends in a raised error.
C1_GetNeverRaises == pc # "raised"

\* C2, as stated: for an absent (None) resource, Get returns default for
\* every path, the empty path included, and every default.
C2_AbsentReturnsDefault ==
  (pc = "done" /\ resource_in = None) => result = default

\* C2, amended: for an absent (None) resource and a path that is not empty,
\* Get returns default, for every default.
C2_AbsentReturnsDefaultOnPath ==
  (pc # "loop" /\ resource_in = None /\ Len(key) > 0)
    => (pc = "done" /\ result = default)

C2_Witness ==
  /\ pc = "done" /\ resource_in = None /\ Len(key) = MaxPathLen
  /\ default = IntV(7) /\ result = IntV(7)

\* C3: whenever an iteration of Get fails to find its key, the result of Get
\* is the caller-supplied default, also when that iteration is the last one.
C3_MissReturnsDefault == (pc = "done" /\ missed) => result = default

\* The key of mapping r that k stands for: k itself, else its camelCase
\* spelling, else its snake_case spelling; None when none is a key.
C4_Match(r, k) ==
  IF DictHas(r, k) THEN k
  ELSE IF k[1] = "str" /\ DictHas(r, StrV(ConvertToCamelCase(k[2])))
    THEN StrV(ConvertToCamelCase(k[2]))
  ELSE IF k[1] = "str" /\ DictHas(r, StrV(ConvertToSnakeCase(k[2])))
    THEN StrV(ConvertToSnakeCase(k[2]))
  ELSE None

\* C4: for a Mapping resource and a key k that is no Slice, Get descends
\* into the entry under k when k is a key, else under ToCamelCase(k) when k is
\* a string and that is a key, else under ToSnakeCase(k) when that is a key;
\* for every key of the mapping, the empty string included.
C4_MappingKeyPrecedence ==
  [][(/\ pc = "loop" /\ i < Len(key)
      /\ resource[1] = "dict"
      /\ key[i + 1] # None
      /\ C4_Match(resource, key[i + 1]) # None)
     => (/\ pc' = "loop" /\ i' = i + 1
         /\ resource' = DictGet(resource, C4_Match(resource, key[i + 1])))]_vars

\* The member values of a Mapping, in the order of its keys, or of a Sequence.
C5_Members(r) == IF r[1] = "dict" THEN [j \in DOMAIN r[2] |-> r[2][j].v] ELSE r[2]

\* C5: when the current key is Slice and more path remains, Get returns a
\* Sequence with one element per member of the current Mapping (in the order
\* of its keys) or Sequence (in index order), each the resolution of the
\* remaining path against the member's value with the same default; an empty
\* Mapping or Sequence gives an empty result.

C5_SliceFansOut ==
  (/\ pc = "done" /\ i + 1 < Len(key)
   /\ key[i + 1] = None
   /\ resource[1] \in {"dict", "list"})
  => result = ListV([j \in DOMAIN C5_Members(resource) |->
                       Get(C5_Members(resource)[j], SubSeq(key, i + 2, Len(key)),
                           default).value])

FieldValues(r, k) ==
  SelectSeq([j \in DOMAIN r[2] |-> DictGet(r[2][j], k)], Truthy)

IsListOfDicts(r) ==
  r[1] = "list" /\ r[2] # <<>> /\ \A j \in DOMAIN r[2] : r[2][j][1] = "dict"

IsMetadataListWith(r, nm) ==
  /\ r[1] = "list"
  /\ \A j \in DOMAIN r[2] :
       /\ r[2][j][1] = "dict"
       /\ DictHas(r[2][j], StrV(s_key)) /\ DictHas(r[2][j], StrV(s_value))
  /\ \E j \in DOMAIN r[2] : DictGet(r[2][j], StrV(s_key)) = StrV(nm)

\* The value field of the first entry of r whose key is nm.
FirstValue(r, nm) ==
  DictGet(r[2][Min({j \in DOMAIN r[2] : DictGet(r[2][j], StrV(s_key)) = StrV(nm)})],
          StrV(s_value))

\* C8, as stated: for a resource whose `metadata` field is a Sequence of
\* {key, value} Mappings with an entry of key "email",
\* Get(resource, [metadata, email], None) returns the value of that entry.
C8_MetadataEmail ==
  (/\ pc = "done"
   /\ key = <<StrV(s_metadata), StrV(s_email)>> /\ default = None
   /\ resource_in[1] \in {"dict", "obj"}
   /\ IsMetadataListWith(DictGet(resource_in, StrV(s_metadata)), s_email))
  => result = FirstValue(DictGet(resource_in, StrV(s_metadata)), s_email)

\* C8, amended: for a resource whose `metadata` field is a Mapping that has
\* no `email` key and whose `items` field is a Sequence of {key, value}
\* Mappings with an entry of key "email", Get(resource, [metadata, email],
\* None) returns the value of the first such entry when that value is not
\* falsy, and None when it is.
C8_MetadataItemsEmail ==
  (/\ pc # "loop"
   /\ key = <<StrV(s_metadata), StrV(s_email)>> /\ default = None
   /\ resource_in[1] \in {"dict", "obj"}
   /\ DictGet(resource_in, StrV(s_metadata))[1] = "dict"
   /\ ~DictHas(DictGet(resource_in, StrV(s_metadata)), StrV(s_email))
   /\ IsMetadataListWith(DictGet(DictGet(resource_in, StrV(s_metadata)), StrV(s_items)),
                         s_email))
  => /\ pc = "done"
     /\ result =
          IF Truthy(FirstValue(DictGet(DictGet(resource_in, StrV(s_metadata)),
                                       StrV(s_items)), s_email))
          THEN FirstValue(DictGet(DictGet(resource_in, StrV(s_metadata)),
                                  StrV(s_items)), s_email)
          ELSE None

C8_Witness ==
  /\ pc = "done" /\ branch = "dict_items"
  /\ key = <<StrV(s_metadata), StrV(s_email)>> /\ default = None
  /\ resource_in = D1(s_metadata, D1(s_items, ListV(<<MetaEntry(n_k, IntV(5)),
                                                     MetaEntry(s_email, StrV(<<"v">>))>>)))
  /\ result = StrV(<<"v">>)

----------------------------------------------------------------------------
\* Claims about the case converters (specification SpecCase)

Segments(s) == Split(s, "_")

\* s is made of segments of lowercase letters, none empty, separated by
\* single underscores.
IsSnakeIdentifier(s) ==
  \A j \in DOMAIN Segments(s) :
    Segments(s)[j] # <<>> /\ \A c \in Range(Segments(s)[j]) : IsLower(c)

\* No two segments in a row, after the first segment, are one letter long.
NoTwoShortSegments(s) ==
  \A j \in 2..(Len(Segments(s)) - 1) :
    ~(Len(Segments(s)[j]) = 1 /\ Len(Segments(s)[j + 1]) = 1)

\* C9, as stated: for every identifier s made of letter segments separated
\* by single underscores, one-letter segments such as a_b_c included,
\* ToCamelCase(ToSnakeCase(ToCamelCase(s))) = ToCamelCase(s).
C9_CamelRoundTrip ==
  (cpc = "done" /\ IsSnakeIdentifier(name)) => camel2 = camel

\* C9, amended: the same for every such identifier of lowercase letters in
\* which no two segments in a row, after the first one, are one letter long.
C9_CamelRoundTripLongSegments ==
  (cpc = "done" /\ IsSnakeIdentifier(name) /\ NoTwoShortSegments(name))
    => camel2 = camel

C9_Witness ==
  /\ cpc = "done"
  /\ name = <<"a", "b", "_", "a", "b">>
  /\ camel = <<"a", "b", "A", "b">>
  /\ snake = name
  /\ camel2 = camel

----------------------------------------------------------------------------
\* Claims about EvaluateGlobalRestriction (specification SpecEval)

\* The strings and numbers of r, as strings, that can be reached without
\* passing a key or attribute that starts with '_'.
RECURSIVE VisibleTexts(_)
VisibleTexts(r) ==
  CASE r[1] = "str" -> {r[2]}
    [] r[1] = "int" -> {IntToStr(r[2])}
    [] r[1] \in {"dict", "obj"} ->
         UNION {VisibleTexts(r[2][j].v) :
                  j \in {n \in DOMAIN r[2] : ~(r[2][n].k[2] # <<>> /\ Head(r[2][n].k[2]) = "_")}}
    [] r[1] = "list" -> UNION {VisibleTexts(r[2][j]) : j \in DOMAIN r[2]}
    [] r[1] = "set" -> {IntToStr(x) : x \in r[2]}
    [] OTHER -> {}

\* C10: EvaluateGlobalRestriction never inspects the values under Mapping
\* keys or object attributes that start with '_', at any depth: two resources
\* that differ only in such values give the same result, and the result is
\* true only if a value outside them matches the pattern.
C10_InternalValuesNotInspected ==
  /\ epc = "done" => out_a = out_b
  /\ (epc # "first" /\ out_a) => \E s \in VisibleTexts(res_a) : Search(pattern, s)

C10_Witness ==
  /\ epc = "done"
  /\ res_a = D2(n_k, t_c, n_internal, t_ab)
  /\ res_b = D2(n_k, t_c, n_internal, IntV(5))
  /\ pattern = <<"a", "b">>
  /\ ~out_a /\ ~out_b

----------------------------------------------------------------------------
\* EvaluateGlobalRestriction on a graph of dict objects (specification
\* SpecGraph). A dict value may be the dict itself or another dict, so the
\* recursion is followed call by call: each frame of the stack is one active
\* call of EvaluateGlobalRestriction on a dict, at one entry of its loop
\*   for key, value in resource.iteritems()

\* The depth of calls at which the interpreter raises
\* RuntimeError: maximum recursion depth exceeded.
RecursionLimit == 3

GraphNodes == {1, 2}

Ref(n) == <<"ref", n>>

GraphValues == {t_ab, t_c} \cup {Ref(n) : n \in GraphNodes}

\* The entries of a dict object: up to two, with different keys.
GraphDicts ==
  {<<>>}
  \cup {<<Entry(k, v)>> : k \in {n_k, n_internal}, v \in GraphValues}
  \cup {<<Entry(ks[1], v1), Entry(ks[2], v2)>> :
          ks \in {<<n_k, n_internal>>, <<n_internal, n_k>>},
          v1 \in GraphValues, v2 \in GraphValues}

Heaps == [GraphNodes -> GraphDicts]

GraphTop == stack[Len(stack)]
GraphInLoop == gpc = "run" /\ GraphTop[2] <= Len(heap[GraphTop[1]])
GraphEntry == heap[GraphTop[1]][GraphTop[2]]

\* The loop of the innermost call moves to its next entry.
GraphAdvance == [stack EXCEPT ![Len(stack)] = <<@[1], @[2] + 1>>]

\* EvaluateGlobalRestriction(heap object 1, ...) has been called.
InitGraph ==
  /\ LogIdle
  /\ WatchIdle
  /\ GetIdle
  /\ CaseIdle
  /\ EvalIdle
  /\ heap \in Heaps
  /\ gpattern \in {t_ab[2], t_c[2]}
  /\ stack = <<<<1, 1>>>>
  /\ gpc = "run"
  /\ gout = FALSE

\* key.startswith('_'): the value is not evaluated.
GraphSkip ==
  /\ GraphInLoop
  /\ StartsWithUnderscore(GraphEntry.k)
  /\ stack' = GraphAdvance
  /\ UNCHANGED <<heap, gpattern, gpc, gout, getVars, caseVars, evalVars, watchVars, logVars>>

\* The value is a string: the recursive call returns at once; on a match
\* every active call returns True.
GraphLeaf ==
  /\ GraphInLoop
  /\ ~StartsWithUnderscore(GraphEntry.k)
  /\ GraphEntry.v[1] # "ref"
  /\ IF EvaluateGlobalRestriction(GraphEntry.v, gpattern, gpattern)
     THEN stack' = <<>> /\ gpc' = "done" /\ gout' = TRUE
     ELSE stack' = GraphAdvance /\ UNCHANGED <<gpc, gout>>
  /\ UNCHANGED <<heap, gpattern, getVars, caseVars, evalVars, watchVars, logVars>>

\* The value is a dict: the recursive call starts its own loop.
GraphCall ==
  /\ GraphInLoop
  /\ ~StartsWithUnderscore(GraphEntry.k)
  /\ GraphEntry.v[1] = "ref"
  /\ Len(stack) < RecursionLimit
  /\ stack' = Append(stack, <<GraphEntry.v[2], 1>>)
  /\ UNCHANGED <<heap, gpattern, gpc, gout, getVars, caseVars, evalVars, watchVars, logVars>>

\* The recursive call exceeds the recursion depth: RuntimeError, which no
\* except clause of the function catches.
GraphOverflow ==
  /\ GraphInLoop
  /\ ~StartsWithUnderscore(GraphEntry.k)
  /\ GraphEntry.v[1] = "ref"
  /\ Len(stack) >= RecursionLimit
  /\ gpc' = "raised"
  /\ UNCHANGED <<heap, gpattern, stack, gout, getVars, caseVars, evalVars, watchVars, logVars>>

\* The loop of the innermost call is over (or the dict is empty): it returns
\* False, and its caller goes on with its next entry.
GraphReturnFalse ==
  /\ gpc = "run"
  /\ GraphTop[2] > Len(heap[GraphTop[1]])
  /\ IF Len(stack) = 1
     THEN stack' = <<>> /\ gpc' = "done" /\ gout' = FALSE
     ELSE /\ stack' = [SubSeq(stack, 1, Len(stack) - 1) EXCEPT
                         ![Len(stack) - 1] = <<@[1], @[2] + 1>>]
          /\ UNCHANGED <<gpc, gout>>
  /\ UNCHANGED <<heap, gpattern, getVars, caseVars, evalVars, watchVars, logVars>>

NextGraph == GraphSkip \/ GraphLeaf \/ GraphCall \/ GraphOverflow \/ GraphReturnFalse

SpecGraph == InitGraph /\ [][NextGraph]_vars

\* The objects that values of object n refer to under keys that do not start
\* with '_'.
GraphSucc(n) ==
  {heap[n][j].v[2] : j \in {e \in DOMAIN heap[n] :
                             heap[n][e].v[1] = "ref" /\ heap[n][e].k[2][1] # "_"}}

RECURSIVE GraphClosure(_)
GraphClosure(S) ==
  LET T == S \cup UNION {GraphSucc(n) : n \in S}
  IN IF T = S THEN S ELSE GraphClosure(T)

\* The objects the evaluation of object 1 can reach.
GraphReach == GraphClosure({1})

\* Some reachable object refers back to itself, directly or through others.
GraphCyclic == \E n \in GraphReach : n \in GraphClosure(GraphSucc(n))

\* No string of a reachable object, under a key that does not start with '_',
\* matches the pattern.
GraphNoMatch ==
  \A n \in GraphReach : \A j \in DOMAIN heap[n] :
    (heap[n][j].v[1] # "ref" /\ heap[n][j].k[2][1] # "_")
      => ~Search(gpattern, heap[n][j].v[2])

\* C11: EvaluateGlobalRestriction on a self-referential (cyclic) Mapping whose
\* reachable values do not match the pattern ends by returning a boolean; it
\* does not recurse until the recursion depth is exceeded.
C11_CyclicTerminates ==
  (gpc # "idle" /\ GraphCyclic /\ GraphNoMatch) => gpc # "raised"

----------------------------------------------------------------------------
\* Watch.Run of surface/deployment_manager/runtime_configs/variables/watch.py
\* (specification SpecWatch). A watch request ends in a response, in an
\* apitools HttpError <<"HttpError", status>> or in a socket.error
\* <<"socket.error", message>>.

\* --max-wait is given in whole seconds up to this many.
MaxWait == 2

\* util.VariableClient(num_retries=0, ...)
NumRetries == 0

TIMEOUT_MESSAGE == "The read operation timed out"
OtherMessage == "Connection refused"

HttpError(status) == <<"HttpError", status>>
SocketError(message) == <<"socket.error", message>>
Response(v) == <<"response", v>>
ToolException(exit_code) == <<"ToolException", exit_code>>

Replies ==
  {Response(StrV(<<"v">>))}
  \cup {HttpError(st) : st \in {400, 404, 500, 502, 503, 504}}
  \cup {SocketError(msg) : msg \in {TIMEOUT_MESSAGE, OtherMessage}}

\* util.IsDeadlineExceededError: 504 Gateway Timeout (DEADLINE_EXCEEDED)
IsDeadlineExceededError(error) == error[2] = 504

\* util.IsBadGatewayError: 502 BAD GATEWAY
IsBadGatewayError(error) == error[2] = 502

\* util.IsSocketTimeout: the error is the timeout of the read operation
IsSocketTimeout(error) == error[2] = TIMEOUT_MESSAGE

\* _RaiseTimeout()
_RaiseTimeout == ToolException(2)

\* The test of the clause `except apitools_exceptions.HttpError`, with only
\* the deadline test left.
HttpErrorIsTimeoutDeadlineOnly(error) == IsDeadlineExceededError(error)

\* The test of the clause `except apitools_exceptions.HttpError`.
HttpErrorIsTimeout(error) == IsDeadlineExceededError(error) \/ IsBadGatewayError(error)

\* The exit value of the command for the way Run ended.
ExitValue(outcome) ==
  CASE outcome[1] = "ToolException" -> outcome[2]
    [] outcome[1] \in {"HttpError", "socket.error"} -> 1
    [] OTHER -> 0

\* util.FormatVariable(response)
FormatVariable(response) == <<"formatted", response[2]>>

InitWatch ==
  /\ LogIdle
  /\ GetIdle
  /\ CaseIdle
  /\ EvalIdle
  /\ GraphIdle
  /\ w_max_wait \in 0..MaxWait
  /\ w_newer_than \in {None, StrV(<<"t">>)}
  /\ w_reply \in Replies
  /\ w_num_retries = 0 /\ w_timeout = 0 /\ w_request = None /\ w_sent = 0
  /\ w_error = None /\ wpc = "start" /\ w_outcome = None

\* The client and the request are built.
WatchStart ==
  /\ wpc = "start"
  /\ w_num_retries' = NumRetries
  /\ w_timeout' = w_max_wait
  /\ w_request' = w_newer_than
  /\ wpc' = "request"
  /\ UNCHANGED <<w_max_wait, w_newer_than, w_reply, w_sent, w_error, w_outcome,
                 getVars, caseVars, evalVars, graphVars, logVars>>

\* variable_client.Watch(request): the request is sent; when it fails the
\* client sends it again while it has retries left.
WatchSend ==
  /\ wpc = "request"
  /\ w_sent' = w_sent + 1
  /\ IF w_reply[1] = "response"
     THEN wpc' = "response" /\ UNCHANGED w_error
     ELSE IF w_sent' <= w_num_retries
       THEN wpc' = "request" /\ UNCHANGED w_error
       ELSE wpc' = "failed" /\ w_error' = w_reply
  /\ UNCHANGED <<w_max_wait, w_newer_than, w_reply, w_num_retries, w_timeout, w_request,
                 w_outcome, getVars, caseVars, evalVars, graphVars, logVars>>

\* return util.FormatVariable(...)
WatchReturn ==
  /\ wpc = "response"
  /\ w_outcome' = FormatVariable(w_reply)
  /\ wpc' = "returned"
  /\ UNCHANGED <<w_max_wait, w_newer_than, w_reply, w_num_retries, w_timeout, w_request,
                 w_sent, w_error, getVars, caseVars, evalVars, graphVars, logVars>>

\* except apitools_exceptions.HttpError as error
WatchHttpError ==
  /\ wpc = "failed"
  /\ w_error[1] = "HttpError"
  /\ w_outcome' = IF HttpErrorIsTimeout(w_error) THEN _RaiseTimeout ELSE w_error
  /\ wpc' = "raised"
  /\ UNCHANGED <<w_max_wait, w_newer_than, w_reply, w_num_retries, w_timeout, w_request,
                 w_sent, w_error, getVars, caseVars, evalVars, graphVars, logVars>>

\* except socket.error as error
WatchSocketError ==
  /\ wpc = "failed"
  /\ w_error[1] = "socket.error"
  /\ w_outcome' = IF IsSocketTimeout(w_error) THEN _RaiseTimeout ELSE w_error
  /\ wpc' = "raised"
  /\ UNCHANGED <<w_max_wait, w_newer_than, w_reply, w_num_retries, w_timeout, w_request,
                 w_sent, w_error, getVars, caseVars, evalVars, graphVars, logVars>>

NextWatch == WatchStart \/ WatchSend \/ WatchReturn \/ WatchHttpError \/ WatchSocketError

SpecWatch == InitWatch /\ [][NextWatch]_vars

----------------------------------------------------------------------------
\* Get on Mappings, with names of attributes of the dict object among the
\* keys (specification SpecMapping)

MappingResources ==
  {DictV(<<>>),
   D1(s_items, IntV(5)),
   D1(s_keys, IntV(5)),
   D1(s_hasKey, IntV(5)),
   D1(n_k, IntV(5)),
   D2(n_k, IntV(5), s_items, IntV(6)),
   D1(s_items, ListV(<<>>)),
   D1(s_items, ListV(<<MetaEntry(s_keys, StrV(<<"v">>))>>)),
   D1(s_items, ListV(<<MetaEntry(s_email, StrV(<<"v">>))>>)),
   D1(n_k, D1(s_keys, IntV(5))),
   D1(n_k, DictV(<<>>)),
   ListV(<<D1(s_count, IntV(5))>>),
   ListV(<<IntV(10)>>),
   ObjV(<<Entry(s_keys, IntV(5))>>),
   IntV(5),
   None}

MappingPathKeys ==
  {None, IntV(0)} \cup {StrV(x) : x \in {s_items, s_keys, s_has_key, s_count, n_k}}

MappingPaths == {<<a>> : a \in MappingPathKeys}
                \cup {<<a, b>> : a \in MappingPathKeys, b \in MappingPathKeys}

InitMapping ==
  /\ LogIdle
  /\ WatchIdle
  /\ GraphIdle
  /\ CaseIdle
  /\ EvalIdle
  /\ resource_in \in MappingResources
  /\ resource = resource_in
  /\ key \in MappingPaths
  /\ default \in Defaults
  /\ i = 0 /\ meta = None /\ pc = "loop" /\ branch = "" /\ result = None
  /\ missed = FALSE

SpecMapping == InitMapping /\ [][Next]_vars

\* Name k is a key of Mapping r in some spelling.
C13_IsKey(r, k) == \E x \in Spellings(k) : DictHas(r, x)

\* Mapping r has a metadata entry for name k in some spelling.
C13_IsMetadataEntry(r, k) ==
  /\ DictHas(r, StrV(s_items))
  /\ DictGet(r, StrV(s_items))[1] = "list"
  /\ \E x \in Spellings(k) : \E j \in DOMAIN DictGet(r, StrV(s_items))[2] :
       /\ DictGet(r, StrV(s_items))[2][j][1] = "dict"
       /\ DictGet(DictGet(r, StrV(s_items))[2][j], StrV(s_key)) = x

\* C13: for a Mapping-like resource Get never resolves a Name through
\* attribute lookup: a name that is a key and an attribute of the mapping
\* object yields the entry; a name that is an attribute of the mapping object
\* but neither a key nor a metadata entry yields default; attribute lookup
\* happens only for resources that are no Mapping, and there before Sequence
\* handling.
C13_MappingBeforeAttribute ==
  /\ (/\ pc = "done" /\ resource_in[1] = "dict" /\ Len(key) = 1
      /\ key[1][1] = "str" /\ key[1][2] \in DictAttrs)
     => /\ DictHas(resource_in, key[1]) => result = DictGet(resource_in, key[1])
        /\ (~C13_IsKey(resource_in, key[1]) /\ ~C13_IsMetadataEntry(resource_in, key[1]))
             => result = default
  /\ (pc = "loop" /\ i = 1 /\ branch = "attr") => resource_in[1] # "dict"
  /\ (/\ pc = "loop" /\ i = 1 /\ resource_in[1] = "list"
      /\ \E x \in Spellings(key[1]) : HasAttr(resource_in, x))
     => branch = "attr"

----------------------------------------------------------------------------
\* Claims about the `items` metadata of a Mapping (specification Spec)

\* items is a Sequence of Mappings.
C14_IsEntryList(items) ==
  items[1] = "list" /\ \A j \in DOMAIN items[2] : items[2][j][1] = "dict"

\* The `value` field of the first entry of items whose `key` field is x,
\* deserialized when that is asked for and the value parses; None when there
\* is no such entry.
C14_EntryValue(items, x, deserialize) ==
  LET hits == {j \in DOMAIN items[2] : DictGet(items[2][j], StrV(s_key)) = x}
      raw == DictGet(items[2][Min(hits)], StrV(s_value))
  IN IF hits = {} THEN None
     ELSE IF deserialize /\ JsonLoads(raw).ok THEN JsonLoads(raw).val
     ELSE raw

\* The spellings of name x in the order they are tried.
C14_Tries(x) == <<x, StrV(ConvertToCamelCase(x[2])), StrV(ConvertToSnakeCase(x[2]))>>

\* The value of the first spelling of x whose value is not falsy, None when
\* there is none.
C14_FirstValue(items, x, deserialize) ==
  LET ok == {t \in 1..3 : Truthy(C14_EntryValue(items, C14_Tries(x)[t], deserialize))}
  IN IF ok = {} THEN None ELSE C14_EntryValue(items, C14_Tries(x)[Min(ok)], deserialize)

----------------------------------------------------------------------------
\* Get on Sequences of Mappings, with paths of a name, a value and one more
\* element (specification SpecMeta)

MetaResources ==
  {ListV(<<D2(n_empty, StrV(<<"v">>), n_k, IntV(5))>>),
   ListV(<<D1(n_empty, IntV(5)), D1(n_empty, IntV(0))>>),
   ListV(<<D2(n_k, StrV(<<"v">>), n_camel, IntV(5)), D1(n_k, IntV(5))>>),
   ListV(<<D1(n_k, IntV(0)), DictV(<<>>)>>),
   ListV(<<D1(n_k, IntV(5)), IntV(5)>>),
   ListV(<<D2(s_count, IntV(5), n_k, IntV(6))>>)}

MetaNames == {StrV(n_empty), StrV(n_k), StrV(s_count)}
MetaValues == {None, IntV(0), IntV(5), StrV(<<"v">>), StrV(n_empty)}
MetaRest == {None, IntV(0), StrV(n_k), StrV(n_snake)}

MetaPaths ==
  {<<n, v>> : n \in MetaNames, v \in MetaValues}
  \cup {<<n, v, w>> : n \in MetaNames, v \in MetaValues, w \in MetaRest}

InitMeta ==
  /\ LogIdle
  /\ WatchIdle
  /\ GraphIdle
  /\ CaseIdle
  /\ EvalIdle
  /\ resource_in \in MetaResources
  /\ resource = resource_in
  /\ key \in MetaPaths
  /\ default \in Defaults
  /\ i = 0 /\ meta = None /\ pc = "loop" /\ branch = "" /\ result = None
  /\ missed = FALSE

SpecMeta == InitMeta /\ [][Next]_vars

\* The first element of Sequence r, in order, that is a Mapping whose field n
\* equals v; None when there is none.
C15_FirstWith(r, n, v) ==
  LET hits == {j \in DOMAIN r[2] : r[2][j][1] = "dict" /\ DictGet(r[2][j], n) = v}
  IN IF hits = {} THEN None ELSE r[2][Min(hits)]

\* A name n that is not the last path element is applied to a non-empty
\* Sequence whose first element is a Mapping, and n is no attribute of the
\* Sequence object.
C15_Defers ==
  /\ pc = "loop" /\ i + 1 < Len(key)
  /\ meta = None
  /\ resource[1] = "list" /\ resource[2] # <<>> /\ resource[2][1][1] = "dict"
  /\ key[i + 1][1] = "str"
  /\ \A x \in Spellings(key[i + 1]) : ~HasAttr(resource, x)

\* C15: a non-final Name n applied to a non-empty Sequence whose first
\* element is a Mapping is recorded as the pending metadata name; the next
\* path element v, whatever its kind, is consumed as a value: the resource
\* becomes the first element whose field n equals v (absent if none) and the
\* pending name is cleared in that step, so that the element after v is
\* resolved as a key against that entry; for every name n, the empty string
\* included.
C15_PendingNameConsumesNext ==
  [][/\ C15_Defers
        => (/\ pc' = "loop" /\ i' = i + 1
            /\ meta' = key[i + 1] /\ resource' = resource)
     /\ (pc = "loop" /\ i < Len(key) /\ meta # None)
        => (/\ pc' = "loop" /\ i' = i + 1
            /\ meta' = None
            /\ resource' = C15_FirstWith(resource, meta, key[i + 1]))]_vars

----------------------------------------------------------------------------
\* Claims about ConvertToCamelCase (specification SpecCase)

\* Segment seg with its first character uppercased and the rest unchanged.
C16_UpperFirst(seg) ==
  IF seg = <<>> THEN <<>> ELSE <<ToUpperChar(seg[1])>> \o Tail(seg)

\* The first segment of s unchanged, then every later segment with its
\* first character uppercased.
C16_Expected(s) ==
  Segments(s)[1]
    \o Join([j \in 1..(Len(Segments(s)) - 1) |-> C16_UpperFirst(Segments(s)[j + 1])])

\* After its first character, seg has no uppercase letter and no letter
\* that follows a digit.
C16_PlainTail(seg) ==
  \A j \in 2..Len(seg) :
    ~IsUpper(seg[j]) /\ (IsLower(seg[j]) => ~IsDigit(seg[j - 1]))

MaxPolls == 3

LOG_OUTPUT_BEGIN == " REMOTE BUILD OUTPUT "

LOG_OUTPUT_INCOMPLETE == " (possibly incomplete) "

\* Response bodies the server sends.
Bodies == {<<>>, <<"x">>, <<"x", "\n">>, <<"\n">>}

\* Response statuses the server sends.
HttpStatuses == {200, 206, 403, 404, 416, 429, 500, 599}

\* body.rstrip('\n')
RECURSIVE Rstrip(_)
Rstrip(body) ==
  IF body # <<>> /\ body[Len(body)] = "\n"
  THEN Rstrip(SubSeq(body, 1, Len(body) - 1))
  ELSE body

_PrintLogLine(o, text) == Append(o, <<"text", text>>)

_PrintFirstLine(o) == Append(o, <<"first", LOG_OUTPUT_BEGIN>>)

_PrintLastLine(o, msg) == Append(o, <<"last", msg>>)

\* self.cursor += len(body), written over instead of added.
NextCursorAssigned(cur, body) == Len(body)

\* self.cursor += len(body)
NextCursor(cur, body) == cur + Len(body)

\* res.status >= 500 and res.status < 600, with the first test strict.
IsServerErrorAbove500(status) == status > 500 /\ status < 600

\* res.status >= 500 and res.status < 600
IsServerError(status) == status >= 500 /\ status < 600

\* The part of Poll after the request: the new cursor, the new output and
\* whether HttpError is raised, for a response (status, body).
PollResult(cur, o, is_last, status, body) ==
  IF status = 404
  THEN [cursor |-> cur, out |-> o, raised |-> FALSE]
  ELSE IF status = 416
  THEN [cursor |-> cur,
        out |-> IF is_last THEN _PrintLastLine(o, "") ELSE o,
        raised |-> FALSE]
  ELSE IF status = 206 \/ status = 200
  THEN [cursor |-> NextCursor(cur, body),
        out |-> IF is_last
                THEN _PrintLastLine(
                       _PrintLogLine(IF cur = 0 THEN _PrintFirstLine(o) ELSE o,
                                     Rstrip(body)), "")
                ELSE _PrintLogLine(IF cur = 0 THEN _PrintFirstLine(o) ELSE o,
                                   Rstrip(body)),
        raised |-> FALSE]
  ELSE IF status = 429
  THEN [cursor |-> cur,
        out |-> IF is_last THEN _PrintLastLine(o, LOG_OUTPUT_INCOMPLETE) ELSE o,
        raised |-> FALSE]
  ELSE IF IsServerError(status)
  THEN [cursor |-> cur,
        out |-> IF is_last THEN _PrintLastLine(o, LOG_OUTPUT_INCOMPLETE) ELSE o,
        raised |-> FALSE]
  ELSE [cursor |-> cur, out |-> o, raised |-> TRUE]

\* Poll(is_last) answered by (status, body): the request carries
\* Range: bytes=<cursor>-, then the response is handled.
Poll(is_last, status, body) ==
  /\ t_polls' = t_polls + 1
  /\ t_range' = cursor
  /\ t_is_last' = is_last
  /\ t_status' = status
  /\ t_body' = body
  /\ t_received' = IF status = 206 \/ status = 200
                   THEN t_received + Len(body) ELSE t_received
  /\ cursor' = PollResult(cursor, out, is_last, status, body).cursor
  /\ out' = PollResult(cursor, out, is_last, status, body).out
  /\ t_raised' = PollResult(cursor, out, is_last, status, body).raised

\* LogTailer.__init__
InitTailer ==
  /\ cursor = 0 /\ out = <<>> /\ t_polls = 0 /\ t_range = 0 /\ t_received = 0
  /\ t_is_last = FALSE /\ t_status = 0 /\ t_body = <<>> /\ t_raised = FALSE
  /\ StreamIdle
  /\ WatchIdle /\ GraphIdle /\ GetIdle /\ CaseIdle /\ EvalIdle

\* Any caller: one more Poll call on the tailer, answered by any response.
TailerPoll ==
  /\ spc = "idle"
  /\ t_polls < MaxPolls
  /\ \E is_last \in BOOLEAN, status \in HttpStatuses, body \in Bodies :
       /\ (status \notin {200, 206} => body = <<>>)
       /\ Poll(is_last, status, body)
  /\ UNCHANGED <<streamVars, getVars, caseVars, evalVars, graphVars, watchVars>>

NextTailer == TailerPoll

SpecTailer == InitTailer /\ [][NextTailer]_vars

\* -------------------------------------------------------------------------
\* CloudBuildClient.Stream(build_ref).  A build is <<status, logsBucket>>;
\* a call is <<"GetBuild", status read>> or <<"Poll", is_last>>.

BuildStatuses == {"QUEUED", "QUEUING", "WORKING", "SUCCESS", "FAILURE"}

LogsBuckets == {"", "gs://bucket"}

\* working_statuses, without statuses.QUEUING.
WorkingStatusesWithoutQueuing == {"QUEUED", "WORKING"}

\* working_statuses
working_statuses == {"QUEUED", "QUEUING", "WORKING"}

InitStream ==
  /\ TailerIdle
  /\ build = <<"", "">> /\ calls = <<>> /\ spc = "start" /\ returned = <<"", "">>
  /\ WatchIdle /\ GraphIdle /\ GetIdle /\ CaseIdle /\ EvalIdle

\* build = self.GetBuild(build_ref); NoLogsBucketException without a
\* logsBucket; otherwise the LogTailer is constructed.
StreamStart ==
  /\ spc = "start"
  /\ \E status \in BuildStatuses, bucket \in LogsBuckets :
       /\ build' = <<status, bucket>>
       /\ calls' = Append(calls, <<"GetBuild", status>>)
       /\ spc' = IF bucket = "" THEN "raised" ELSE "loop"
  /\ cursor' = 0
  /\ out' = <<>>
  /\ UNCHANGED <<returned, t_polls, t_range, t_received, t_is_last, t_status, t_body,
                 t_raised, getVars, caseVars, evalVars, graphVars, watchVars>>

\* while build.status in working_statuses: log_tailer.Poll()
StreamPoll ==
  /\ spc = "loop"
  /\ build[1] \in working_statuses
  /\ \E status \in HttpStatuses, body \in Bodies :
       /\ (status \notin {200, 206} => body = <<>>)
       /\ Poll(FALSE, status, body)
  /\ calls' = Append(calls, <<"Poll", FALSE>>)
  /\ spc' = IF t_raised' THEN "raised" ELSE "get"
  /\ UNCHANGED <<build, returned, getVars, caseVars, evalVars, graphVars, watchVars>>

\* time.sleep(1); build = self.GetBuild(build_ref).  The build stops
\* working by the time MaxPolls polls were made.
StreamGetBuild ==
  /\ spc = "get"
  /\ \E status \in BuildStatuses :
       /\ (t_polls >= MaxPolls => status \in {"SUCCESS", "FAILURE"})
       /\ build' = <<status, build[2]>>
       /\ calls' = Append(calls, <<"GetBuild", status>>)
  /\ spc' = "loop"
  /\ UNCHANGED <<returned, tailerVars, getVars, caseVars, evalVars, graphVars, watchVars>>

\* log_tailer.Poll(is_last=True); return build
StreamLastPoll ==
  /\ spc = "loop"
  /\ build[1] \notin working_statuses
  /\ \E status \in HttpStatuses, body \in Bodies :
       /\ (status \notin {200, 206} => body = <<>>)
       /\ Poll(TRUE, status, body)
  /\ calls' = Append(calls, <<"Poll", TRUE>>)
  /\ spc' = IF t_raised' THEN "raised" ELSE "returned"
  /\ returned' = IF t_raised' THEN returned ELSE build
  /\ UNCHANGED <<build, getVars, caseVars, evalVars, graphVars, watchVars>>

NextStream == StreamStart \/ StreamPoll \/ StreamGetBuild \/ StreamLastPoll

SpecStream == InitStream /\ [][NextStream]_vars

\* The statuses the build is working in, as the text lists them.
C17_Working == {"QUEUED", "QUEUING", "WORKING"}

C17_IsGetBuild(c) == c[1] = "GetBuild"

\* C17, as stated: in Stream on a build with a logsBucket, every Poll made
\* while the last status read is QUEUED, QUEUING or WORKING has is_last
\* false and is followed by a fresh GetBuild; exactly one Poll with is_last
\* true is made, only after a GetBuild read a status outside those three;
\* no Poll or GetBuild follows it; the build returned is the last one read
\* and its status is not a working status.
C17_StreamOrderAlways ==
  build[2] # "" =>
    /\ \A j \in 1..Len(calls) :
         calls[j] = <<"Poll", FALSE>> =>
           /\ j > 1 /\ C17_IsGetBuild(calls[j - 1]) /\ calls[j - 1][2] \in C17_Working
           /\ IF j < Len(calls) THEN C17_IsGetBuild(calls[j + 1]) ELSE spc = "get"
    /\ \A j \in 1..Len(calls) :
         calls[j] = <<"Poll", TRUE>> =>
           /\ j = Len(calls)
           /\ j > 1 /\ C17_IsGetBuild(calls[j - 1]) /\ calls[j - 1][2] \notin C17_Working
    /\ spc \in {"returned", "raised"} =>
         Cardinality({j \in 1..Len(calls) : calls[j] = <<"Poll", TRUE>>}) = 1
    /\ spc = "returned" =>
         /\ returned = <<calls[Len(calls) - 1][2], build[2]>>
         /\ returned[1] \notin C17_Working

\* C17, amended: a Poll with is_last false is made only right after a
\* GetBuild that read a working status and, unless it raised, is followed by
\* a fresh GetBuild; a Poll with is_last true is made only right after a
\* GetBuild that read another status and no call follows it; when Stream
\* returns, exactly one Poll with is_last true was made and the build
\* returned is the one the last GetBuild read, whose status is not a working
\* status.  A Poll that raises ends Stream with no further call.
C17_StreamOrder ==
  build[2] # "" =>
    /\ \A j \in 1..Len(calls) :
         calls[j] = <<"Poll", FALSE>> =>
           /\ j > 1 /\ C17_IsGetBuild(calls[j - 1]) /\ calls[j - 1][2] \in C17_Working
           /\ IF j < Len(calls) THEN C17_IsGetBuild(calls[j + 1])
                                ELSE spc = "get" \/ (spc = "raised" /\ t_raised)
    /\ \A j \in 1..Len(calls) :
         calls[j] = <<"Poll", TRUE>> =>
           /\ j = Len(calls)
           /\ j > 1 /\ C17_IsGetBuild(calls[j - 1]) /\ calls[j - 1][2] \notin C17_Working
    /\ spc = "raised" => t_raised
    /\ spc = "returned" =>
         /\ Cardinality({j \in 1..Len(calls) : calls[j] = <<"Poll", TRUE>>}) = 1
         /\ returned = <<calls[Len(calls) - 1][2], build[2]>>
         /\ returned[1] \notin C17_Working

C17_Witness ==
  /\ spc = "returned"
  /\ calls = <<<<"GetBuild", "QUEUED">>, <<"Poll", FALSE>>, <<"GetBuild", "QUEUING">>,
               <<"Poll", FALSE>>, <<"GetBuild", "SUCCESS">>, <<"Poll", TRUE>>>>
  /\ returned[1] = "SUCCESS"

\* What a step printed: the items of out' after those of out.
PrintedNow == SubSeq(out', Len(out) + 1, Len(out'))

\* The printed items of printed that are log content.
LogContent(printed) == SelectSeq(printed, LAMBDA it : it[1] = "text")

\* C18: the cursor starts at 0 and never decreases; a Poll's request asks
\* for the bytes from the cursor on, which is the number of body bytes
\* received in 200 and 206 responses so far; a 200 or 206 response advances
\* the cursor by exactly the length of its body and prints that body (up to
\* its trailing newlines) as the one log text of the poll; every other
\* response, raising or not, leaves the cursor unchanged and prints no log
\* content.
C18_CursorCountsReceivedBytes ==
  /\ cursor = 0
  /\ [][t_polls' = t_polls + 1 =>
          /\ t_range' = cursor
          /\ t_range' = t_received
          /\ cursor' >= cursor
          /\ IF t_status' \in {200, 206}
             THEN /\ cursor' = cursor + Len(t_body')
                  /\ LogContent(PrintedNow) = <<<<"text", Rstrip(t_body')>>>>
             ELSE /\ cursor' = cursor
                  /\ LogContent(PrintedNow) = <<>>]_vars

C18_Witness ==
  /\ t_polls = 3
  /\ t_status = 404
  /\ t_range = 3
  /\ cursor = 3
  /\ LogContent(out) = <<<<"text", <<"x">>>>, <<"text", <<"x">>>>>>
  /\ t_received = 3

\* C19: over the lifetime of a tailer the header line is printed at most
\* once, and it is printed before any log content; this holds for every
\* sequence of polls and response bodies, empty bodies included.
C19_HeaderAtMostOnce ==
  /\ Cardinality({j \in 1..Len(out) : out[j][1] = "first"}) <= 1
  /\ \A j \in 1..Len(out) :
       out[j][1] = "text" => \E k \in 1..(j - 1) : out[k][1] = "first"

\* The statuses Poll accepts, as the text lists them.
C20_Accepted(status) ==
  status \in {404, 416, 200, 206, 429} \/ (status >= 500 /\ status < 600)

C20_Marked(status) == status = 429 \/ (status >= 500 /\ status < 600)

\* What the closing line of a Poll answered by status is.
C20_Closing(status) ==
  <<"last", IF C20_Marked(status) THEN LOG_OUTPUT_INCOMPLETE ELSE "">>

C20_IsClosing(it) == it[1] = "last"

\* C20, as stated: a Poll with is_last true that does not raise prints the
\* closing line exactly once and as the last thing it prints, for each
\* status 404, 416, 200, 206, 429, 5xx, with the marker exactly for 429 and
\* 5xx; a Poll with is_last false prints no closing line; a Poll answered by
\* another status raises HttpError and prints nothing.
C20_ClosingLine ==
  [][t_polls' = t_polls + 1 =>
       /\ t_raised' = ~C20_Accepted(t_status')
       /\ t_raised' => PrintedNow = <<>>
       /\ (~t_raised' /\ t_is_last') =>
            /\ SelectSeq(PrintedNow, C20_IsClosing) = <<C20_Closing(t_status')>>
            /\ PrintedNow[Len(PrintedNow)] = C20_Closing(t_status')
       /\ ~t_is_last' => SelectSeq(PrintedNow, C20_IsClosing) = <<>>]_vars

\* C20, amended: the same for the statuses 416, 200, 206, 429, 5xx; a Poll
\* answered by 404 does not raise and prints nothing, whatever is_last is.
C20_ClosingLineExcept404 ==
  [][t_polls' = t_polls + 1 =>
       /\ t_raised' = ~C20_Accepted(t_status')
       /\ t_raised' => PrintedNow = <<>>
       /\ t_status' = 404 => PrintedNow = <<>>
       /\ (~t_raised' /\ t_is_last' /\ t_status' # 404) =>
            /\ SelectSeq(PrintedNow, C20_IsClosing) = <<C20_Closing(t_status')>>
            /\ PrintedNow[Len(PrintedNow)] = C20_Closing(t_status')
       /\ ~t_is_last' => SelectSeq(PrintedNow, C20_IsClosing) = <<>>]_vars

C20_Witness ==
  /\ t_polls = 2
  /\ t_is_last
  /\ t_status = 500
  /\ out = <<<<"first", LOG_OUTPUT_BEGIN>>, <<"text", <<"x">>>>, <<"last", "">>,
             <<"last", LOG_OUTPUT_INCOMPLETE>>>>

====
